---- MODULE Spec2Model ----
(***************************************************************************)
(* alazar: a family of small pseudo-random number generators (XorShift8,   *)
(* XorShift8Custom, XorShift8Gen, XorShift16/32/64, XorShift128,           *)
(* XorShift128p, Xyza8a, Xyza8b, Mult13P1).                                *)
(*                                                                         *)
(* A machine word of width W is a sequence of W bits, least significant    *)
(* bit first (index 1 is bit 0), so that every width up to u128 keeps its  *)
(* exact modulo-2^W arithmetic.  A generator is a record                   *)
(*   [kind, sh, w]: its type, its const-generic shift parameters (only     *)
(*   XorShift8Custom / XorShift8Gen) and its state words.                  *)
(* Every method is an operator from the receiver (and the build profile)   *)
(* to a result record [panic, self, gen, out]: whether the call aborted,   *)
(* the receiver after the call, the generator it returned and the word it  *)
(* returned.                                                               *)
(***************************************************************************)
EXTENDS Integers, Sequences, FiniteSets

VARIABLES build, g, outs, base, origin, call

vars == <<build, g, outs, base, origin, call>>

----------------------------------------------------------------------------
(* Fixed-width words                                                       *)

\* bit i of the natural number n
RECURSIVE BitOf(_, _)
BitOf(n, i) == IF i = 0 THEN n % 2 ELSE BitOf(n \div 2, i - 1)

\* a word given bit by bit, kept as an explicit sequence
Word(f) == f \o <<>>

\* the W-bit word of a natural number n < 2^31
FromNat(n, W) == Word([i \in 1..W |-> BitOf(n, i - 1)])

RECURSIVE ToNatFrom(_, _)
ToNatFrom(x, i) == IF i > Len(x) THEN 0 ELSE x[i] + 2 * ToNatFrom(x, i + 1)

\* the number a word of at most 30 significant bits stands for
ToNat(x) == ToNatFrom(x, 1)

\* a word written as hexadecimal digits, most significant digit first
Hex(digits) ==
    Word([i \in 1..(4 * Len(digits)) |->
            BitOf(digits[Len(digits) - ((i - 1) \div 4)], (i - 1) % 4)])

Zero(W) == Word([i \in 1..W |-> 0])

IsZero(x) == \A i \in 1..Len(x) : x[i] = 0

\* x ^ y
Xor(x, y) == Word([i \in 1..Len(x) |-> (x[i] + y[i]) % 2])

\* x | y
Or(x, y) == Word([i \in 1..Len(x) |-> IF x[i] = 1 \/ y[i] = 1 THEN 1 ELSE 0])

\* x << k for 0 <= k < W: the bits shifted out are discarded
Shl(x, k) == Word([i \in 1..Len(x) |-> IF i > k THEN x[i - k] ELSE 0])

\* x >> k for 0 <= k < W (logical, the words are unsigned)
Shr(x, k) == Word([i \in 1..Len(x) |-> IF i + k <= Len(x) THEN x[i + k] ELSE 0])

\* x.rotate_left(k)
RotL(x, k) == Word([i \in 1..Len(x) |-> x[((i - 1 - k) % Len(x)) + 1]])

\* x as uW, widening (zero extension) or narrowing (truncation)
Cast(x, W) == Word([i \in 1..W |-> IF i <= Len(x) THEN x[i] ELSE 0])

\* the carries of x + y: cs[i] is the carry into bit i, cs[W + 1] the carry out
RECURSIVE Carries(_, _, _, _)
Carries(x, y, cs, i) ==
    IF i > Len(x) THEN cs
    ELSE Carries(x, y,
                 Append(cs, IF x[i] + y[i] + cs[i] >= 2 THEN 1 ELSE 0), i + 1)

\* x.wrapping_add(y)
WrappingAdd(x, y) ==
    LET cs == Carries(x, y, <<0>>, 1)
    IN  Word([i \in 1..Len(x) |-> (x[i] + y[i] + cs[i]) % 2])

\* whether x + y does not fit the width (the overflow check of `+`)
AddOverflows(x, y) == Carries(x, y, <<0>>, 1)[Len(x) + 1] = 1

----------------------------------------------------------------------------
(* Generators and call results                                             *)

NoGen == [kind |-> "None", sh |-> <<>>, w |-> <<>>]

NoWord == <<>>

Gen(kind, sh, w) == [kind |-> kind, sh |-> sh, w |-> w]

\* a call that returned: the receiver after it, the generator and the word returned
Ret(self, gen, out) == [panic |-> FALSE, self |-> self, gen |-> gen, out |-> out]

\* a call that aborted (a failed debug assertion or an overflow check): the
\* receiver is left as it was
Panic(self) == [panic |-> TRUE, self |-> self, gen |-> NoGen, out |-> NoWord]

\* debug_assert! and the arithmetic overflow checks are compiled in by the
\* development profile and left out by the release profile
Checks(b) == b = "debug"

----------------------------------------------------------------------------
(* XorShift8                                                               *)

XorShift8_new(seed, b) ==
    IF IsZero(seed) THEN Ret(NoGen, NoGen, NoWord)
    ELSE Ret(NoGen, Gen("XorShift8", <<>>, <<seed>>), NoWord)

XorShift8_new_unchecked(seed, b) ==
    IF Checks(b) /\ ~IsZero(seed) THEN Panic(NoGen)
    ELSE Ret(NoGen, Gen("XorShift8", <<>>, <<seed>>), NoWord)

XorShift8_default(b) == XorShift8_new_unchecked(Hex(<<13, 14>>), b)

XorShift8_current_u8(self, b) == Ret(self, NoGen, self.w[1])

\* a variant of next_u8 whose last line assigns the shifted word instead of
\* xor-ing it in
XorShift8_next_u8_slip(self, b) ==
    LET x0 == self.w[1]
        x1 == Xor(x0, Shl(x0, 3))
        x2 == Xor(x1, Shr(x1, 4))
        x3 == Shl(x2, 2)
    IN  Ret([self EXCEPT !.w = <<x3>>], NoGen, x3)

XorShift8_next_u8(self, b) ==
    LET x0 == self.w[1]
        x1 == Xor(x0, Shl(x0, 3))
        x2 == Xor(x1, Shr(x1, 4))
        x3 == Xor(x2, Shl(x2, 2))
    IN  Ret([self EXCEPT !.w = <<x3>>], NoGen, x3)

XorShift8_next_new(self, b) ==
    LET x0 == self.w[1]
        x1 == Xor(x0, Shl(x0, 3))
        x2 == Xor(x1, Shr(x1, 4))
        x3 == Xor(x2, Shl(x2, 2))
    IN  Ret(self, [self EXCEPT !.w = <<x3>>], NoWord)

----------------------------------------------------------------------------
(* XorShift8Custom<SH1, SH2, SH3> and XorShift8Gen<S1, S2, S3>             *)

\* the three debug assertions of new and new_unchecked: each tests its own
\* shift against 0 and the first shift against 7
ShiftAssertsPass(sh) ==
    /\ sh[1] > 0 /\ sh[1] <= 7
    /\ sh[2] > 0 /\ sh[1] <= 7
    /\ sh[3] > 0 /\ sh[1] <= 7

\* x << k and x >> k of a u8 by a const parameter k: with overflow checks a
\* shift of 8 or more aborts, without them the amount is taken modulo 8
ShiftOverflows(k) == k >= 8

XorShift8Custom_new(sh, seed, b) ==
    IF Checks(b) /\ ~ShiftAssertsPass(sh) THEN Panic(NoGen)
    ELSE IF IsZero(seed) THEN Ret(NoGen, NoGen, NoWord)
    ELSE Ret(NoGen, Gen("XorShift8Custom", sh, <<seed>>), NoWord)

XorShift8Custom_new_unchecked(sh, seed, b) ==
    IF Checks(b) /\ ~ShiftAssertsPass(sh) THEN Panic(NoGen)
    ELSE IF Checks(b) /\ ~IsZero(seed) THEN Panic(NoGen)
    ELSE Ret(NoGen, Gen("XorShift8Custom", sh, <<seed>>), NoWord)

XorShift8Custom_default(sh, b) ==
    XorShift8Custom_new_unchecked(sh, Hex(<<13, 14>>), b)

XorShift8Custom_current_u8(self, b) == Ret(self, NoGen, self.w[1])

XorShift8Custom_next_u8(self, b) ==
    LET sh == self.sh
        x0 == self.w[1]
        x1 == Xor(x0, Shl(x0, sh[1] % 8))
        x2 == Xor(x1, Shr(x1, sh[2] % 8))
        x3 == Xor(x2, Shl(x2, sh[3] % 8))
    IN  IF Checks(b) /\ \E i \in 1..3 : ShiftOverflows(sh[i]) THEN Panic(self)
        ELSE Ret([self EXCEPT !.w = <<x3>>], NoGen, x3)

XorShift8Custom_next_new(self, b) ==
    LET sh == self.sh
        x0 == self.w[1]
        x1 == Xor(x0, Shl(x0, sh[1] % 8))
        x2 == Xor(x1, Shr(x1, sh[2] % 8))
        x3 == Xor(x2, Shl(x2, sh[3] % 8))
    IN  IF Checks(b) /\ \E i \in 1..3 : ShiftOverflows(sh[i]) THEN Panic(self)
        ELSE Ret(self, [self EXCEPT !.w = <<x3>>], NoWord)

XorShift8Gen_new(sh, seed, b) ==
    IF Checks(b) /\ ~ShiftAssertsPass(sh) THEN Panic(NoGen)
    ELSE IF IsZero(seed) THEN Ret(NoGen, NoGen, NoWord)
    ELSE Ret(NoGen, Gen("XorShift8Gen", sh, <<seed>>), NoWord)

XorShift8Gen_next_u8(self, b) ==
    LET sh == self.sh
        x0 == self.w[1]
        x1 == Xor(x0, Shl(x0, sh[1] % 8))
        x2 == Xor(x1, Shr(x1, sh[2] % 8))
        x3 == Xor(x2, Shl(x2, sh[3] % 8))
    IN  IF Checks(b) /\ \E i \in 1..3 : ShiftOverflows(sh[i]) THEN Panic(self)
        ELSE Ret([self EXCEPT !.w = <<x3>>], NoGen, x3)

----------------------------------------------------------------------------
(* XorShift16                                                              *)

XorShift16_DEFAULT_SEED == Hex(<<13, 14, 15, 10>>)

XorShift16_new(seed, b) ==
    IF IsZero(seed) THEN Ret(NoGen, NoGen, NoWord)
    ELSE Ret(NoGen, Gen("XorShift16", <<>>, <<seed>>), NoWord)

XorShift16_new_unchecked(seed, b) ==
    IF Checks(b) /\ IsZero(seed) THEN Panic(NoGen)
    ELSE Ret(NoGen, Gen("XorShift16", <<>>, <<seed>>), NoWord)

XorShift16_default(b) == XorShift16_new_unchecked(XorShift16_DEFAULT_SEED, b)

XorShift16_current_u16(self, b) == Ret(self, NoGen, self.w[1])

\* a variant of next_u16 whose second step assigns instead of xor-assigning
XorShift16_next_u16_slip(self, b) ==
    LET x0 == self.w[1]
        x1 == Xor(x0, Shl(x0, 7))
        x2 == Shr(x1, 9)
        x3 == Xor(x2, Shl(x2, 8))
    IN  Ret([self EXCEPT !.w = <<x3>>], NoGen, x3)

XorShift16_next_u16(self, b) ==
    LET x0 == self.w[1]
        x1 == Xor(x0, Shl(x0, 7))
        x2 == Xor(x1, Shr(x1, 9))
        x3 == Xor(x2, Shl(x2, 8))
    IN  Ret([self EXCEPT !.w = <<x3>>], NoGen, x3)

XorShift16_next_new(self, b) ==
    LET x0 == self.w[1]
        x1 == Xor(x0, Shl(x0, 7))
        x2 == Xor(x1, Shr(x1, 9))
        x3 == Xor(x2, Shl(x2, 8))
    IN  Ret(self, [self EXCEPT !.w = <<x3>>], NoWord)

----------------------------------------------------------------------------
(* XorShift32                                                              *)

XorShift32_new(seed, b) ==
    IF IsZero(seed) THEN Ret(NoGen, NoGen, NoWord)
    ELSE Ret(NoGen, Gen("XorShift32", <<>>, <<seed>>), NoWord)

XorShift32_new_unchecked(seed, b) ==
    IF Checks(b) /\ ~IsZero(seed) THEN Panic(NoGen)
    ELSE Ret(NoGen, Gen("XorShift32", <<>>, <<seed>>), NoWord)

XorShift32_default(b) == XorShift32_new_unchecked(Hex(<<13, 14, 15, 10, 0, 0, 1, 7>>), b)

XorShift32_current_u32(self, b) == Ret(self, NoGen, self.w[1])

XorShift32_next_u32(self, b) ==
    LET x0 == self.w[1]
        x1 == Xor(x0, Shl(x0, 13))
        x2 == Xor(x1, Shr(x1, 17))
        x3 == Xor(x2, Shl(x2, 5))
    IN  Ret([self EXCEPT !.w = <<x3>>], NoGen, x3)

\* a variant of next_new that also advances the receiver
XorShift32_next_new_slip(self, b) ==
    LET x0 == self.w[1]
        x1 == Xor(x0, Shl(x0, 13))
        x2 == Xor(x1, Shr(x1, 17))
        x3 == Xor(x2, Shl(x2, 5))
    IN  Ret([self EXCEPT !.w = <<x3>>], [self EXCEPT !.w = <<x3>>], NoWord)

XorShift32_next_new(self, b) ==
    LET x0 == self.w[1]
        x1 == Xor(x0, Shl(x0, 13))
        x2 == Xor(x1, Shr(x1, 17))
        x3 == Xor(x2, Shl(x2, 5))
    IN  Ret(self, [self EXCEPT !.w = <<x3>>], NoWord)

----------------------------------------------------------------------------
(* XorShift64                                                              *)

XorShift64_DEFAULT_SEED == Hex(<<13, 14, 15, 10, 0, 0, 1, 7, 13, 14, 15, 10, 0, 0, 1, 7>>)

XorShift64_new(seed, b) ==
    IF IsZero(seed) THEN Ret(NoGen, NoGen, NoWord)
    ELSE Ret(NoGen, Gen("XorShift64", <<>>, <<seed>>), NoWord)

XorShift64_new_unchecked(seed, b) ==
    IF Checks(b) /\ IsZero(seed) THEN Panic(NoGen)
    ELSE Ret(NoGen, Gen("XorShift64", <<>>, <<seed>>), NoWord)

XorShift64_default(b) == XorShift64_new_unchecked(XorShift64_DEFAULT_SEED, b)

XorShift64_current_u16(self, b) == Ret(self, NoGen, self.w[1])

\* a variant of next_u64 with the second and third shift amounts exchanged
XorShift64_next_u64_slip(self, b) ==
    LET x0 == self.w[1]
        x1 == Xor(x0, Shl(x0, 13))
        x2 == Xor(x1, Shr(x1, 17))
        x3 == Xor(x2, Shl(x2, 7))
    IN  Ret([self EXCEPT !.w = <<x3>>], NoGen, x3)

XorShift64_next_u64(self, b) ==
    LET x0 == self.w[1]
        x1 == Xor(x0, Shl(x0, 13))
        x2 == Xor(x1, Shr(x1, 7))
        x3 == Xor(x2, Shl(x2, 17))
    IN  Ret([self EXCEPT !.w = <<x3>>], NoGen, x3)

XorShift64_next_new(self, b) ==
    LET x0 == self.w[1]
        x1 == Xor(x0, Shl(x0, 13))
        x2 == Xor(x1, Shr(x1, 7))
        x3 == Xor(x2, Shl(x2, 17))
    IN  Ret(self, [self EXCEPT !.w = <<x3>>], NoWord)

----------------------------------------------------------------------------
(* XorShift128: four u32 words                                             *)

\* a variant of new whose zero test leaves out the last word
XorShift128_new_slip(seeds, b) ==
    IF ~IsZero(Or(Or(seeds[1], seeds[2]), seeds[3]))
    THEN Ret(NoGen,
             Gen("XorShift128", <<>>, <<seeds[1], seeds[2], seeds[3], seeds[4]>>),
             NoWord)
    ELSE Ret(NoGen, NoGen, NoWord)

XorShift128_new(seeds, b) ==
    IF ~IsZero(Or(Or(Or(seeds[1], seeds[2]), seeds[3]), seeds[4]))
    THEN Ret(NoGen,
             Gen("XorShift128", <<>>, <<seeds[1], seeds[2], seeds[3], seeds[4]>>),
             NoWord)
    ELSE Ret(NoGen, NoGen, NoWord)

\* a variant of current_u64 that joins the two words in exchanged halves
XorShift128_current_u64_slip(self, b) ==
    Ret(self, NoGen, Or(Shl(Cast(self.w[2], 64), 32), Cast(self.w[1], 64)))

XorShift128_current_u64(self, b) ==
    Ret(self, NoGen, Or(Shl(Cast(self.w[1], 64), 32), Cast(self.w[2], 64)))

\* a variant of next_u64 that returns the two words in exchanged halves
XorShift128_next_u64_slip(self, b) ==
    LET t  == self.w[4]
        s0 == self.w[1]
        s1 == Xor(s0, Shl(s0, 11))
        s2 == Xor(s1, Shr(s1, 8))
        n0 == Xor(Xor(s2, t), Shr(t, 19))
        w  == <<n0, s0, self.w[2], self.w[3]>>
    IN  Ret([self EXCEPT !.w = w], NoGen,
            Or(Shl(Cast(w[2], 64), 32), Cast(w[1], 64)))

XorShift128_next_u64(self, b) ==
    LET t  == self.w[4]
        s0 == self.w[1]
        s1 == Xor(s0, Shl(s0, 11))
        s2 == Xor(s1, Shr(s1, 8))
        n0 == Xor(Xor(s2, t), Shr(t, 19))
        w  == <<n0, s0, self.w[2], self.w[3]>>
    IN  Ret([self EXCEPT !.w = w], NoGen,
            Or(Shl(Cast(w[1], 64), 32), Cast(w[2], 64)))

XorShift128_next_new(self, b) ==
    LET x  == self.w
        t  == x[4]
        s0 == x[1]
        s1 == Xor(s0, Shl(s0, 11))
        s2 == Xor(s1, Shr(s1, 8))
        n0 == Xor(Xor(s2, t), Shr(t, 19))
    IN  Ret(self, [self EXCEPT !.w = <<n0, s0, x[2], x[3]>>], NoWord)

----------------------------------------------------------------------------
(* XorShift128p: two u64 words                                             *)

XorShift128p_new(seeds, b) ==
    IF ~IsZero(Or(seeds[1], seeds[2]))
    THEN Ret(NoGen, Gen("XorShift128p", <<>>, <<seeds[1], seeds[2]>>), NoWord)
    ELSE Ret(NoGen, NoGen, NoWord)

\* self.0[0] + self.0[1]: the plain `+` aborts on overflow when checked
XorShift128p_current_u64(self, b) ==
    IF Checks(b) /\ AddOverflows(self.w[1], self.w[2]) THEN Panic(self)
    ELSE Ret(self, NoGen, WrappingAdd(self.w[1], self.w[2]))

XorShift128p_next_64(self, b) ==
    LET s1a    == self.w[1]
        s0     == self.w[2]
        result == WrappingAdd(s0, s1a)
        s1     == Xor(s1a, s0)
        n0     == Xor(Xor(RotL(s0, 24), s1), Shl(s1, 16))
        n1     == RotL(s1, 37)
    IN  IF Checks(b) /\ AddOverflows(s0, s1a) THEN Panic(self)
        ELSE Ret([self EXCEPT !.w = <<n0, n1>>], NoGen, result)

XorShift128p_next_new(self, b) ==
    LET x   == self.w
        s1a == x[1]
        s0  == x[2]
        s1  == Xor(s1a, s0)
        n0  == Xor(Xor(RotL(s0, 24), s1), Shl(s1, 16))
        n1  == RotL(s1, 37)
    IN  Ret(self, [self EXCEPT !.w = <<n0, n1>>], NoWord)

----------------------------------------------------------------------------
(* Xyza8a and Xyza8b: four u8 words x, y, z, a                             *)

Xyza8a_DEFAULT_SEED == <<Hex(<<13, 14>>), Hex(<<15, 10>>), Hex(<<0, 0>>), Hex(<<1, 7>>)>>

Xyza8a_new(seeds, b) ==
    Ret(NoGen, Gen("Xyza8a", <<>>, <<seeds[1], seeds[2], seeds[3], seeds[4]>>), NoWord)

Xyza8a_default(b) == Xyza8a_new(Xyza8a_DEFAULT_SEED, b)

Xyza8a_current_u8(self, b) == Ret(self, NoGen, self.w[4])

\* a variant of next_u8 that leaves t out of the new a
Xyza8a_next_u8_slip(self, b) ==
    LET x  == self.w[2]
        y  == self.w[3]
        z  == self.w[4]
        a  == Xor(z, Shr(z, 1))
    IN  Ret([self EXCEPT !.w = <<x, y, z, a>>], NoGen, a)

Xyza8a_next_u8(self, b) ==
    LET t  == Xor(self.w[1], Shl(self.w[1], 4))
        x  == self.w[2]
        y  == self.w[3]
        z  == self.w[4]
        a  == Xor(Xor(Xor(z, t), Shr(z, 1)), Shl(t, 1))
    IN  Ret([self EXCEPT !.w = <<x, y, z, a>>], NoGen, a)

Xyza8a_next_new(self, b) ==
    LET new == self
        t   == Xor(new.w[1], Shl(new.w[1], 4))
        x   == new.w[2]
        y   == new.w[3]
        z   == new.w[4]
        a   == Xor(Xor(Xor(z, t), Shr(z, 1)), Shl(t, 1))
    IN  Ret(self, [new EXCEPT !.w = <<x, y, z, a>>], NoWord)

Xyza8b_DEFAULT_SEED == <<Hex(<<13, 14>>), Hex(<<15, 10>>), Hex(<<0, 0>>), Hex(<<1, 7>>)>>

Xyza8b_new(seeds, b) ==
    Ret(NoGen, Gen("Xyza8b", <<>>, <<seeds[1], seeds[2], seeds[3], seeds[4]>>), NoWord)

Xyza8b_default(b) == Xyza8b_new(Xyza8b_DEFAULT_SEED, b)

Xyza8b_current_u8(self, b) == Ret(self, NoGen, self.w[4])

\* a variant of next_u8 that computes a from z as it was before the ring shift
Xyza8b_next_u8_slip(self, b) ==
    LET t  == Xor(self.w[1], Shr(self.w[1], 1))
        x  == self.w[2]
        y  == self.w[3]
        z  == self.w[4]
        a  == Xor(Xor(Xor(self.w[3], t), Shr(self.w[3], 3)), Shl(t, 1))
    IN  Ret([self EXCEPT !.w = <<x, y, z, a>>], NoGen, a)

Xyza8b_next_u8(self, b) ==
    LET t  == Xor(self.w[1], Shr(self.w[1], 1))
        x  == self.w[2]
        y  == self.w[3]
        z  == self.w[4]
        a  == Xor(Xor(Xor(z, t), Shr(z, 3)), Shl(t, 1))
    IN  Ret([self EXCEPT !.w = <<x, y, z, a>>], NoGen, a)

Xyza8b_next_new(self, b) ==
    LET new == self
        t   == Xor(new.w[1], Shr(new.w[1], 1))
        x   == new.w[2]
        y   == new.w[3]
        z   == new.w[4]
        a   == Xor(Xor(Xor(z, t), Shr(z, 3)), Shl(t, 1))
    IN  Ret(self, [new EXCEPT !.w = <<x, y, z, a>>], NoWord)

----------------------------------------------------------------------------
(* Mult13P1: one u8 word                                                   *)

Mult13P1_DEFAULT_SEED == Hex(<<13, 14>>)

Mult13P1_new(seed, b) == Ret(NoGen, Gen("Mult13P1", <<>>, <<seed>>), NoWord)

Mult13P1_default(b) == Mult13P1_new(Mult13P1_DEFAULT_SEED, b)

Mult13P1_current_u8(self, b) == Ret(self, NoGen, self.w[1])

\* a variant of next_u8 that leaves out the final wrapping_add(1)
Mult13P1_next_u8_slip(self, b) ==
    LET n  == self.w[1]
        n4 == Shl(n, 2)
        n8 == Shl(n, 3)
        st == WrappingAdd(WrappingAdd(n, n4), n8)
    IN  Ret([self EXCEPT !.w = <<st>>], NoGen, st)

\* a variant of next_u8 whose final wrapping_add adds 2
Mult13P1_next_u8_slip2(self, b) ==
    LET n  == self.w[1]
        n4 == Shl(n, 2)
        n8 == Shl(n, 3)
        st == WrappingAdd(WrappingAdd(WrappingAdd(n, n4), n8), FromNat(2, 8))
    IN  Ret([self EXCEPT !.w = <<st>>], NoGen, st)

Mult13P1_next_u8(self, b) ==
    LET n  == self.w[1]
        n4 == Shl(n, 2)
        n8 == Shl(n, 3)
        st == WrappingAdd(WrappingAdd(WrappingAdd(n, n4), n8), FromNat(1, 8))
    IN  Ret([self EXCEPT !.w = <<st>>], NoGen, st)

\* state += n_times_2_pow_2 + n_times_2_pow_3 + 1: three plain additions,
\* each aborting on overflow when checked
Mult13P1_next_new(self, b) ==
    LET state == self.w[1]
        n4    == Shl(state, 2)
        n8    == Shl(state, 3)
        r1    == WrappingAdd(n4, n8)
        r2    == WrappingAdd(r1, FromNat(1, 8))
        r3    == WrappingAdd(state, r2)
        ovf   == \/ AddOverflows(n4, n8)
                 \/ AddOverflows(r1, FromNat(1, 8))
                 \/ AddOverflows(state, r2)
    IN  IF Checks(b) /\ ovf THEN Panic(self)
        ELSE Ret(self, [self EXCEPT !.w = <<r3>>], NoWord)

----------------------------------------------------------------------------
(* devela::convert: joining and splitting words in little-endian order     *)

\* the W-bit word whose i-th part (of b bits, the first the least significant)
\* is v[i]: the parts widened, shifted into place and or-ed together
RECURSIVE JoinFrom(_, _, _, _)
JoinFrom(v, b, W, i) ==
    IF i > Len(v) THEN Zero(W)
    ELSE Or(Shl(Cast(v[i], W), b * (i - 1)), JoinFrom(v, b, W, i + 1))

\* the parts of b bits of x, least significant first: (x >> b*i) as u<b>
Split(x, b) ==
    Word([i \in 1..(Len(x) \div b) |-> Cast(Shr(x, b * (i - 1)), b)])

u16_from_u8_le(v) == JoinFrom(v, 8, 16, 1)

u32_from_u8_le(v) == JoinFrom(v, 8, 32, 1)

u32_from_u16_le(v) == JoinFrom(v, 16, 32, 1)

u64_from_u8_le(v) == JoinFrom(v, 8, 64, 1)

u64_from_u16_le(v) == JoinFrom(v, 16, 64, 1)

u64_from_u32_le(v) == JoinFrom(v, 32, 64, 1)

u16_into_u8_le(x) == Split(x, 8)

u32_into_u8_le(x) == Split(x, 8)

u64_into_u32_le(x) == Split(x, 32)

u128_into_u32_le(x) == Split(x, 32)

u128_into_u64_le(x) == Split(x, 64)

----------------------------------------------------------------------------
(* Extra constructors                                                      *)

XorShift16_new1_u16(seed, b) == XorShift16_new(seed, b)

\* a variant of new2_u8 that joins the two bytes most significant first
XorShift16_new2_u8_slip(seeds, b) ==
    XorShift16_new(u16_from_u8_le(<<seeds[2], seeds[1]>>), b)

XorShift16_new2_u8(seeds, b) == XorShift16_new(u16_from_u8_le(seeds), b)

XorShift32_new1_32(seed, b) == XorShift32_new(seed, b)

XorShift32_new2_16(seeds, b) == XorShift32_new(u32_from_u16_le(seeds), b)

XorShift32_new4_8(seeds, b) == XorShift32_new(u32_from_u8_le(seeds), b)

XorShift64_new1_u64(seed, b) == XorShift64_new(seed, b)

XorShift64_new2_u32(seeds, b) == XorShift64_new(u64_from_u32_le(seeds), b)

XorShift64_new4_u16(seeds, b) == XorShift64_new(u64_from_u16_le(seeds), b)

XorShift64_new8_u8(seeds, b) == XorShift64_new(u64_from_u8_le(seeds), b)

XorShift128_new1_128(seed, b) == XorShift128_new(u128_into_u32_le(seed), b)

\* a variant of new2_64 that takes the high half of each u64 first
XorShift128_new2_64_slip(seeds, b) ==
    LET xy == u64_into_u32_le(seeds[1])
        za == u64_into_u32_le(seeds[2])
    IN  XorShift128_new(<<xy[2], xy[1], za[2], za[1]>>, b)

XorShift128_new2_64(seeds, b) ==
    LET xy == u64_into_u32_le(seeds[1])
        za == u64_into_u32_le(seeds[2])
    IN  XorShift128_new(<<xy[1], xy[2], za[1], za[2]>>, b)

XorShift128_new4_32(seeds, b) == XorShift128_new(seeds, b)

XorShift128_new8_16(seeds, b) ==
    XorShift128_new(<<u32_from_u16_le(<<seeds[1], seeds[2]>>),
                      u32_from_u16_le(<<seeds[3], seeds[4]>>),
                      u32_from_u16_le(<<seeds[5], seeds[6]>>),
                      u32_from_u16_le(<<seeds[7], seeds[8]>>)>>, b)

XorShift128_new16_8(seeds, b) ==
    XorShift128_new(
        <<u32_from_u8_le(<<seeds[1], seeds[2], seeds[3], seeds[4]>>),
          u32_from_u8_le(<<seeds[5], seeds[6], seeds[7], seeds[8]>>),
          u32_from_u8_le(<<seeds[9], seeds[10], seeds[11], seeds[12]>>),
          u32_from_u8_le(<<seeds[13], seeds[14], seeds[15], seeds[16]>>)>>, b)

XorShift128p_new1_128(seed, b) == XorShift128p_new(u128_into_u64_le(seed), b)

XorShift128p_new2_64(seeds, b) == XorShift128p_new(seeds, b)

XorShift128p_new4_32(seeds, b) ==
    XorShift128p_new(<<u64_from_u32_le(<<seeds[1], seeds[2]>>),
                       u64_from_u32_le(<<seeds[3], seeds[4]>>)>>, b)

XorShift128p_new8_16(seeds, b) ==
    XorShift128p_new(
        <<u64_from_u16_le(<<seeds[1], seeds[2], seeds[3], seeds[4]>>),
          u64_from_u16_le(<<seeds[5], seeds[6], seeds[7], seeds[8]>>)>>, b)

XorShift128p_new16_8(seeds, b) ==
    LET s == seeds
    IN  XorShift128p_new(
            <<u64_from_u8_le(<<s[1], s[2], s[3], s[4], s[5], s[6], s[7], s[8]>>),
              u64_from_u8_le(<<s[9], s[10], s[11], s[12],
                               s[13], s[14], s[15], s[16]>>)>>, b)

Xyza8a_new1_u32(seed, b) == Xyza8a_new(u32_into_u8_le(seed), b)

Xyza8a_new2_u16(seeds, b) ==
    LET xy == u16_into_u8_le(seeds[1])
        za == u16_into_u8_le(seeds[2])
    IN  Xyza8a_new(<<xy[1], xy[2], za[1], za[2]>>, b)

Xyza8a_new4_u8(seeds, b) == Xyza8a_new(seeds, b)

Xyza8b_new1_u32(seed, b) == Xyza8b_new(u32_into_u8_le(seed), b)

Xyza8b_new2_u16(seeds, b) ==
    LET xy == u16_into_u8_le(seeds[1])
        zb == u16_into_u8_le(seeds[2])
    IN  Xyza8b_new(<<xy[1], xy[2], zb[1], zb[2]>>, b)

Xyza8b_new4_u8(seeds, b) == Xyza8b_new(seeds, b)

Mult13P1_new1_u8(seed, b) == Mult13P1_new(seed, b)

----------------------------------------------------------------------------
(* The interface: which constructor and which method each type has         *)

Kinds == {"XorShift8", "XorShift8Custom", "XorShift8Gen", "XorShift16",
          "XorShift32", "XorShift64", "XorShift128", "XorShift128p",
          "Xyza8a", "Xyza8b", "Mult13P1"}

\* the types whose shifts are const parameters
ShiftKinds == {"XorShift8Custom", "XorShift8Gen"}

\* the types that derive Clone and Copy
CopyKinds == Kinds \ ShiftKinds

\* the types that implement Default
DefaultKinds == {"XorShift8", "XorShift8Custom", "XorShift16", "XorShift32",
                 "XorShift64", "Xyza8a", "Xyza8b", "Mult13P1"}

\* the types that have next_new and a current accessor (XorShift8Gen has neither)
PeekKinds == Kinds \ {"XorShift8Gen"}

\* every seeded constructor: <<type, name, number of seed parts, bits per part>>
Constructors ==
    {<<"XorShift8", "new", 1, 8>>,
     <<"XorShift8", "new_unchecked", 1, 8>>,
     <<"XorShift8Custom", "new", 1, 8>>,
     <<"XorShift8Custom", "new_unchecked", 1, 8>>,
     <<"XorShift8Gen", "new", 1, 8>>,
     <<"XorShift16", "new", 1, 16>>,
     <<"XorShift16", "new_unchecked", 1, 16>>,
     <<"XorShift16", "new1_u16", 1, 16>>,
     <<"XorShift16", "new2_u8", 2, 8>>,
     <<"XorShift32", "new", 1, 32>>,
     <<"XorShift32", "new_unchecked", 1, 32>>,
     <<"XorShift32", "new1_32", 1, 32>>,
     <<"XorShift32", "new2_16", 2, 16>>,
     <<"XorShift32", "new4_8", 4, 8>>,
     <<"XorShift64", "new", 1, 64>>,
     <<"XorShift64", "new_unchecked", 1, 64>>,
     <<"XorShift64", "new1_u64", 1, 64>>,
     <<"XorShift64", "new2_u32", 2, 32>>,
     <<"XorShift64", "new4_u16", 4, 16>>,
     <<"XorShift64", "new8_u8", 8, 8>>,
     <<"XorShift128", "new", 4, 32>>,
     <<"XorShift128", "new1_128", 1, 128>>,
     <<"XorShift128", "new2_64", 2, 64>>,
     <<"XorShift128", "new4_32", 4, 32>>,
     <<"XorShift128", "new8_16", 8, 16>>,
     <<"XorShift128", "new16_8", 16, 8>>,
     <<"XorShift128p", "new", 2, 64>>,
     <<"XorShift128p", "new1_128", 1, 128>>,
     <<"XorShift128p", "new2_64", 2, 64>>,
     <<"XorShift128p", "new4_32", 4, 32>>,
     <<"XorShift128p", "new8_16", 8, 16>>,
     <<"XorShift128p", "new16_8", 16, 8>>,
     <<"Xyza8a", "new", 4, 8>>,
     <<"Xyza8a", "new1_u32", 1, 32>>,
     <<"Xyza8a", "new2_u16", 2, 16>>,
     <<"Xyza8a", "new4_u8", 4, 8>>,
     <<"Xyza8b", "new", 4, 8>>,
     <<"Xyza8b", "new1_u32", 1, 32>>,
     <<"Xyza8b", "new2_u16", 2, 16>>,
     <<"Xyza8b", "new4_u8", 4, 8>>,
     <<"Mult13P1", "new", 1, 8>>,
     <<"Mult13P1", "new1_u8", 1, 8>>}

\* the seeded constructor c = <<type, name>> called with the seed parts a
Construct(c, sh, a, b) ==
    CASE c = <<"XorShift8", "new">> -> XorShift8_new(a[1], b)
      [] c = <<"XorShift8", "new_unchecked">> -> XorShift8_new_unchecked(a[1], b)
      [] c = <<"XorShift8Custom", "new">> -> XorShift8Custom_new(sh, a[1], b)
      [] c = <<"XorShift8Custom", "new_unchecked">> -> XorShift8Custom_new_unchecked(sh, a[1], b)
      [] c = <<"XorShift8Gen", "new">> -> XorShift8Gen_new(sh, a[1], b)
      [] c = <<"XorShift16", "new">> -> XorShift16_new(a[1], b)
      [] c = <<"XorShift16", "new_unchecked">> -> XorShift16_new_unchecked(a[1], b)
      [] c = <<"XorShift16", "new1_u16">> -> XorShift16_new1_u16(a[1], b)
      [] c = <<"XorShift16", "new2_u8">> -> XorShift16_new2_u8(a, b)
      [] c = <<"XorShift32", "new">> -> XorShift32_new(a[1], b)
      [] c = <<"XorShift32", "new_unchecked">> -> XorShift32_new_unchecked(a[1], b)
      [] c = <<"XorShift32", "new1_32">> -> XorShift32_new1_32(a[1], b)
      [] c = <<"XorShift32", "new2_16">> -> XorShift32_new2_16(a, b)
      [] c = <<"XorShift32", "new4_8">> -> XorShift32_new4_8(a, b)
      [] c = <<"XorShift64", "new">> -> XorShift64_new(a[1], b)
      [] c = <<"XorShift64", "new_unchecked">> -> XorShift64_new_unchecked(a[1], b)
      [] c = <<"XorShift64", "new1_u64">> -> XorShift64_new1_u64(a[1], b)
      [] c = <<"XorShift64", "new2_u32">> -> XorShift64_new2_u32(a, b)
      [] c = <<"XorShift64", "new4_u16">> -> XorShift64_new4_u16(a, b)
      [] c = <<"XorShift64", "new8_u8">> -> XorShift64_new8_u8(a, b)
      [] c = <<"XorShift128", "new">> -> XorShift128_new(a, b)
      [] c = <<"XorShift128", "new1_128">> -> XorShift128_new1_128(a[1], b)
      [] c = <<"XorShift128", "new2_64">> -> XorShift128_new2_64(a, b)
      [] c = <<"XorShift128", "new4_32">> -> XorShift128_new4_32(a, b)
      [] c = <<"XorShift128", "new8_16">> -> XorShift128_new8_16(a, b)
      [] c = <<"XorShift128", "new16_8">> -> XorShift128_new16_8(a, b)
      [] c = <<"XorShift128p", "new">> -> XorShift128p_new(a, b)
      [] c = <<"XorShift128p", "new1_128">> -> XorShift128p_new1_128(a[1], b)
      [] c = <<"XorShift128p", "new2_64">> -> XorShift128p_new2_64(a, b)
      [] c = <<"XorShift128p", "new4_32">> -> XorShift128p_new4_32(a, b)
      [] c = <<"XorShift128p", "new8_16">> -> XorShift128p_new8_16(a, b)
      [] c = <<"XorShift128p", "new16_8">> -> XorShift128p_new16_8(a, b)
      [] c = <<"Xyza8a", "new">> -> Xyza8a_new(a, b)
      [] c = <<"Xyza8a", "new1_u32">> -> Xyza8a_new1_u32(a[1], b)
      [] c = <<"Xyza8a", "new2_u16">> -> Xyza8a_new2_u16(a, b)
      [] c = <<"Xyza8a", "new4_u8">> -> Xyza8a_new4_u8(a, b)
      [] c = <<"Xyza8b", "new">> -> Xyza8b_new(a, b)
      [] c = <<"Xyza8b", "new1_u32">> -> Xyza8b_new1_u32(a[1], b)
      [] c = <<"Xyza8b", "new2_u16">> -> Xyza8b_new2_u16(a, b)
      [] c = <<"Xyza8b", "new4_u8">> -> Xyza8b_new4_u8(a, b)
      [] c = <<"Mult13P1", "new">> -> Mult13P1_new(a[1], b)
      [] c = <<"Mult13P1", "new1_u8">> -> Mult13P1_new1_u8(a[1], b)

DefaultOf(kind, sh, b) ==
    CASE kind = "XorShift8" -> XorShift8_default(b)
      [] kind = "XorShift8Custom" -> XorShift8Custom_default(sh, b)
      [] kind = "XorShift16" -> XorShift16_default(b)
      [] kind = "XorShift32" -> XorShift32_default(b)
      [] kind = "XorShift64" -> XorShift64_default(b)
      [] kind = "Xyza8a" -> Xyza8a_default(b)
      [] kind = "Xyza8b" -> Xyza8b_default(b)
      [] kind = "Mult13P1" -> Mult13P1_default(b)

CurrentOf(self, b) ==
    CASE self.kind = "XorShift8" -> XorShift8_current_u8(self, b)
      [] self.kind = "XorShift8Custom" -> XorShift8Custom_current_u8(self, b)
      [] self.kind = "XorShift16" -> XorShift16_current_u16(self, b)
      [] self.kind = "XorShift32" -> XorShift32_current_u32(self, b)
      [] self.kind = "XorShift64" -> XorShift64_current_u16(self, b)
      [] self.kind = "XorShift128" -> XorShift128_current_u64(self, b)
      [] self.kind = "XorShift128p" -> XorShift128p_current_u64(self, b)
      [] self.kind = "Xyza8a" -> Xyza8a_current_u8(self, b)
      [] self.kind = "Xyza8b" -> Xyza8b_current_u8(self, b)
      [] self.kind = "Mult13P1" -> Mult13P1_current_u8(self, b)

NextOf(self, b) ==
    CASE self.kind = "XorShift8" -> XorShift8_next_u8(self, b)
      [] self.kind = "XorShift8Custom" -> XorShift8Custom_next_u8(self, b)
      [] self.kind = "XorShift8Gen" -> XorShift8Gen_next_u8(self, b)
      [] self.kind = "XorShift16" -> XorShift16_next_u16(self, b)
      [] self.kind = "XorShift32" -> XorShift32_next_u32(self, b)
      [] self.kind = "XorShift64" -> XorShift64_next_u64(self, b)
      [] self.kind = "XorShift128" -> XorShift128_next_u64(self, b)
      [] self.kind = "XorShift128p" -> XorShift128p_next_64(self, b)
      [] self.kind = "Xyza8a" -> Xyza8a_next_u8(self, b)
      [] self.kind = "Xyza8b" -> Xyza8b_next_u8(self, b)
      [] self.kind = "Mult13P1" -> Mult13P1_next_u8(self, b)

NextNewOf(self, b) ==
    CASE self.kind = "XorShift8" -> XorShift8_next_new(self, b)
      [] self.kind = "XorShift8Custom" -> XorShift8Custom_next_new(self, b)
      [] self.kind = "XorShift16" -> XorShift16_next_new(self, b)
      [] self.kind = "XorShift32" -> XorShift32_next_new(self, b)
      [] self.kind = "XorShift64" -> XorShift64_next_new(self, b)
      [] self.kind = "XorShift128" -> XorShift128_next_new(self, b)
      [] self.kind = "XorShift128p" -> XorShift128p_next_new(self, b)
      [] self.kind = "Xyza8a" -> Xyza8a_next_new(self, b)
      [] self.kind = "Xyza8b" -> Xyza8b_next_new(self, b)
      [] self.kind = "Mult13P1" -> Mult13P1_next_new(self, b)

\* a variant of the copy that clears the last state word
CloneOf_slip(self) ==
    [self EXCEPT !.w = [self.w EXCEPT ![Len(self.w)] = Zero(Len(self.w[Len(self.w)]))]]

\* #[derive(Clone, Copy)]: the bit-copy of a generator
CloneOf(self) == self

----------------------------------------------------------------------------
(* Inputs                                                                  *)

\* how many times each instance is advanced
MaxSteps == 2

\* the word with only bit i set, the all-ones word, and the word whose k-th
\* byte (from the least significant) is k
OneHot(W, i) == Word([j \in 1..W |-> IF j = i + 1 THEN 1 ELSE 0])

Ones(W) == Word([j \in 1..W |-> 1])

Ramp(W) == Word([j \in 1..W |-> BitOf(((j - 1) \div 8) + 1, (j - 1) % 8)])

HotBits(W) == {0, 4, 7, 8, (W \div 2) - 1, W \div 2, W - 1} \cap (0..(W - 1))

\* the seeds of W bits the constructors are called with
Seeds(W) ==
    {Zero(W), Ones(W), Ramp(W)} \cup {OneHot(W, i) : i \in HotBits(W)}
        \cup (IF W = 8 THEN {Hex(<<13, 14>>), Hex(<<3, 0>>)} ELSE {})

\* the shift parameters the const-generic types are instantiated with: in
\* range, zero, and beyond the width
ShiftTriples == {<<3, 4, 2>>, <<1, 1, 1>>, <<7, 7, 7>>, <<5, 3, 1>>,
                 <<0, 4, 2>>, <<3, 0, 2>>, <<3, 4, 0>>,
                 <<8, 4, 2>>, <<3, 8, 2>>, <<3, 4, 9>>}

ShiftsOf(kind) == IF kind \in ShiftKinds THEN ShiftTriples ELSE {<<>>}

\* 1 <= Si <= 7, the documented precondition of the const parameters
ValidShifts(sh) == \A i \in 1..Len(sh) : sh[i] >= 1 /\ sh[i] <= 7

\* the seed v cut into its parts of pw bits, least significant part first
PartsOf(v, pw) ==
    Word([i \in 1..(Len(v) \div pw) |-> SubSeq(v, (i - 1) * pw + 1, i * pw)])

----------------------------------------------------------------------------
(* The state machine: a caller that builds a generator, may duplicate it   *)
(* (by copy, or by building it again from the same seed) and drives the    *)
(* two instances in any order.                                             *)
(*   build   the compilation profile                                       *)
(*   g       the two instances (NoGen: not there)                          *)
(*   outs    the words next returned, per instance                         *)
(*   base    how many words instance 1 had returned when instance 2 was made *)
(*   origin  the kind of constructor instance 1 came from                  *)
(*   call    the last call: its name, receiver, arguments, the receiver    *)
(*           before it, and its result                                     *)

NoCall == [op |-> "start", kind |-> "None", who |-> 0, sh |-> <<>>,
           args |-> <<>>, pre |-> NoGen, panic |-> FALSE, gen |-> NoGen,
           out |-> NoWord]

CallRec(op, kind, who, sh, args, pre, r) ==
    [op |-> op, kind |-> kind, who |-> who, sh |-> sh, args |-> args,
     pre |-> pre, panic |-> r.panic, gen |-> r.gen, out |-> r.out]

Init ==
    /\ build \in {"debug", "release"}
    /\ g = <<NoGen, NoGen>>
    /\ outs = <<<<>>, <<>>>>
    /\ base = 0
    /\ origin = "none"
    /\ call = NoCall

OriginOf(op) == IF op = "new_unchecked" THEN "unchecked" ELSE "checked"

\* T::<name>(seed parts)
CallNew ==
    /\ call.op = "start"
    /\ \E c \in Constructors : \E sh \in ShiftsOf(c[1]) : \E v \in Seeds(c[3] * c[4]) :
         LET a == PartsOf(v, c[4])
             r == Construct(<<c[1], c[2]>>, sh, a, build)
         IN  /\ g' = [g EXCEPT ![1] = r.gen]
             /\ origin' = OriginOf(c[2])
             /\ call' = CallRec(c[2], c[1], 1, sh, a, NoGen, r)
    /\ UNCHANGED <<build, outs, base>>

\* T::default()
CallDefault ==
    /\ call.op = "start"
    /\ \E kind \in DefaultKinds : \E sh \in ShiftsOf(kind) :
         LET r == DefaultOf(kind, sh, build)
         IN  /\ g' = [g EXCEPT ![1] = r.gen]
             /\ origin' = "default"
             /\ call' = CallRec("default", kind, 1, sh, <<>>, NoGen, r)
    /\ UNCHANGED <<build, outs, base>>

IsConstructorCall(c) == c.op \notin {"start", "next", "next_new", "current", "clone"}

\* a second generator built by the same constructor call as the first
CallAgain ==
    /\ IsConstructorCall(call) /\ call.who = 1 /\ ~call.panic
    /\ g[1] # NoGen /\ g[2] = NoGen
    /\ LET r == IF call.op = "default"
                THEN DefaultOf(call.kind, call.sh, build)
                ELSE Construct(<<call.kind, call.op>>, call.sh, call.args, build)
       IN  /\ g' = [g EXCEPT ![2] = r.gen]
           /\ call' = CallRec(call.op, call.kind, 2, call.sh, call.args, NoGen, r)
    /\ base' = 0
    /\ UNCHANGED <<build, outs, origin>>

\* let copy = generator;
CallClone ==
    /\ ~call.panic
    /\ g[1] # NoGen /\ g[2] = NoGen /\ g[1].kind \in CopyKinds
    /\ g' = [g EXCEPT ![2] = CloneOf(g[1])]
    /\ base' = Len(outs[1])
    /\ call' = CallRec("clone", g[1].kind, 1, g[1].sh, <<>>, g[1],
                       Ret(g[1], CloneOf(g[1]), NoWord))
    /\ UNCHANGED <<build, outs, origin>>

\* generator.next_*()
CallNext(i) ==
    /\ ~call.panic
    /\ g[i] # NoGen /\ Len(outs[i]) < MaxSteps
    /\ LET r == NextOf(g[i], build)
       IN  /\ g' = [g EXCEPT ![i] = r.self]
           /\ outs' = IF r.panic THEN outs
                      ELSE [outs EXCEPT ![i] = Append(outs[i], r.out)]
           /\ call' = CallRec("next", g[i].kind, i, g[i].sh, <<>>, g[i], r)
    /\ UNCHANGED <<build, base, origin>>

\* generator.next_new()
CallNextNew(i) ==
    /\ ~call.panic
    /\ g[i] # NoGen /\ g[i].kind \in PeekKinds
    /\ LET r == NextNewOf(g[i], build)
       IN  /\ g' = [g EXCEPT ![i] = r.self]
           /\ call' = CallRec("next_new", g[i].kind, i, g[i].sh, <<>>, g[i], r)
    /\ UNCHANGED <<build, outs, base, origin>>

\* generator.current_*()
CallCurrent(i) ==
    /\ ~call.panic
    /\ g[i] # NoGen /\ g[i].kind \in PeekKinds
    /\ LET r == CurrentOf(g[i], build)
       IN  /\ g' = [g EXCEPT ![i] = r.self]
           /\ call' = CallRec("current", g[i].kind, i, g[i].sh, <<>>, g[i], r)
    /\ UNCHANGED <<build, outs, base, origin>>

Next ==
    \/ CallNew
    \/ CallDefault
    \/ CallAgain
    \/ CallClone
    \/ \E i \in 1..2 : CallNext(i)
    \/ \E i \in 1..2 : CallNextNew(i)
    \/ \E i \in 1..2 : CallCurrent(i)

Spec == Init /\ [][Next]_vars

----------------------------------------------------------------------------
(* The rand_core adapters (feature "rand_core"): RngCore and SeedableRng   *)
(* for XorShift16, Mult13P1, Xyza8a and Xyza8b.                            *)

RandKinds == {"XorShift16", "Mult13P1", "Xyza8a", "Xyza8b"}

\* uN::from_le_bytes and uN::to_le_bytes
from_le_bytes(bytes) == JoinFrom(bytes, 8, 8 * Len(bytes), 1)

to_le_bytes(x) == Split(x, 8)

\* an adapter call that returned: the receiver after it, the value returned,
\* the native outputs it drew, the buffer after it and the indices it wrote
RandRet(self, out, used, dest, writes) ==
    [panic |-> FALSE, self |-> self, gen |-> NoGen, out |-> out,
     used |-> used, dest |-> dest, writes |-> writes]

\* an adapter call that aborted on an index out of the buffer's bounds
RandPanic(self, used, dest, writes) ==
    [panic |-> TRUE, self |-> self, gen |-> NoGen, out |-> NoWord,
     used |-> used, dest |-> dest, writes |-> writes]

\* dest[i] = byte, for an index i from 0 that is within the slice
InBounds(dest, i) == i >= 0 /\ i < Len(dest)

Store(dest, i, byte) == [dest EXCEPT ![i + 1] = byte]

XorShift16_cold_path_default(b) ==
    XorShift16_new_unchecked(XorShift16_DEFAULT_SEED, b)

XorShift16_RngCore_next_u32(self, b) ==
    LET r1 == XorShift16_next_u16(self, b)
        r2 == XorShift16_next_u16(r1.self, b)
    IN  RandRet(r2.self, u32_from_u16_le(<<r1.out, r2.out>>),
                <<r1.out, r2.out>>, <<>>, <<>>)

XorShift16_RngCore_next_u64(self, b) ==
    LET r1 == XorShift16_next_u16(self, b)
        r2 == XorShift16_next_u16(r1.self, b)
        r3 == XorShift16_next_u16(r2.self, b)
        r4 == XorShift16_next_u16(r3.self, b)
    IN  RandRet(r4.self, u64_from_u16_le(<<r1.out, r2.out, r3.out, r4.out>>),
                <<r1.out, r2.out, r3.out, r4.out>>, <<>>, <<>>)

\* a variant of the loop that takes the two-byte branch only when more than
\* two bytes remain
RECURSIVE XorShift16_fill_bytes_loop_slip(_, _, _, _, _, _)
XorShift16_fill_bytes_loop_slip(self, dest, i, used, writes, b) ==
    IF ~(i < Len(dest)) THEN RandRet(self, NoWord, used, dest, writes)
    ELSE LET r         == XorShift16_next_u16(self, b)
             bytes     == to_le_bytes(r.out)
             remaining == Len(dest) - i
         IN  IF remaining > 2
             THEN XorShift16_fill_bytes_loop_slip(
                      r.self, Store(Store(dest, i, bytes[1]), i + 1, bytes[2]),
                      i + 2, Append(used, r.out), writes \o <<i, i + 1>>, b)
             ELSE XorShift16_fill_bytes_loop_slip(
                      r.self, Store(dest, i, bytes[1]),
                      i + 1, Append(used, r.out), Append(writes, i), b)

\* while i < dest.len() { .. }: one pass of the loop per call
RECURSIVE XorShift16_fill_bytes_loop(_, _, _, _, _, _)
XorShift16_fill_bytes_loop(self, dest, i, used, writes, b) ==
    IF ~(i < Len(dest)) THEN RandRet(self, NoWord, used, dest, writes)
    ELSE LET r         == XorShift16_next_u16(self, b)
             bytes     == to_le_bytes(r.out)
             remaining == Len(dest) - i
         IN  IF remaining >= 2
             THEN IF ~(InBounds(dest, i) /\ InBounds(dest, i + 1))
                  THEN RandPanic(r.self, Append(used, r.out), dest, writes)
                  ELSE XorShift16_fill_bytes_loop(
                           r.self, Store(Store(dest, i, bytes[1]), i + 1, bytes[2]),
                           i + 2, Append(used, r.out), writes \o <<i, i + 1>>, b)
             ELSE IF ~InBounds(dest, i)
                  THEN RandPanic(r.self, Append(used, r.out), dest, writes)
                  ELSE XorShift16_fill_bytes_loop(
                           r.self, Store(dest, i, bytes[1]),
                           i + 1, Append(used, r.out), Append(writes, i), b)

XorShift16_fill_bytes(self, dest, b) ==
    XorShift16_fill_bytes_loop(self, dest, 0, <<>>, <<>>, b)

\* a variant of from_seed without the test for the all-zero seed
XorShift16_from_seed_slip(seed, b) ==
    XorShift16_new_unchecked(from_le_bytes(seed), b)

XorShift16_from_seed(seed, b) ==
    IF seed = <<Zero(8), Zero(8)>> THEN XorShift16_cold_path_default(b)
    ELSE XorShift16_new_unchecked(from_le_bytes(seed), b)

\* for byte in dest { *byte = self.next_u8(); }: the iterator hands out each
\* element of the slice once, in order
RECURSIVE ForEachByte(_, _, _, _, _, _)
ForEachByte(self, dest, i, used, writes, b) ==
    IF i >= Len(dest) THEN RandRet(self, NoWord, used, dest, writes)
    ELSE LET r == NextOf(self, b)
         IN  ForEachByte(r.self, Store(dest, i, r.out), i + 1,
                         Append(used, r.out), Append(writes, i), b)

\* a variant of next_u32 that combines the four bytes most significant first
Mult13P1_RngCore_next_u32_slip(self, b) ==
    LET r1 == Mult13P1_next_u8(self, b)
        r2 == Mult13P1_next_u8(r1.self, b)
        r3 == Mult13P1_next_u8(r2.self, b)
        r4 == Mult13P1_next_u8(r3.self, b)
    IN  RandRet(r4.self, from_le_bytes(<<r4.out, r3.out, r2.out, r1.out>>),
                <<r1.out, r2.out, r3.out, r4.out>>, <<>>, <<>>)

Mult13P1_RngCore_next_u32(self, b) ==
    LET r1 == Mult13P1_next_u8(self, b)
        r2 == Mult13P1_next_u8(r1.self, b)
        r3 == Mult13P1_next_u8(r2.self, b)
        r4 == Mult13P1_next_u8(r3.self, b)
    IN  RandRet(r4.self, from_le_bytes(<<r1.out, r2.out, r3.out, r4.out>>),
                <<r1.out, r2.out, r3.out, r4.out>>, <<>>, <<>>)

Mult13P1_RngCore_next_u64(self, b) ==
    LET r1 == Mult13P1_next_u8(self, b)
        r2 == Mult13P1_next_u8(r1.self, b)
        r3 == Mult13P1_next_u8(r2.self, b)
        r4 == Mult13P1_next_u8(r3.self, b)
        r5 == Mult13P1_next_u8(r4.self, b)
        r6 == Mult13P1_next_u8(r5.self, b)
        r7 == Mult13P1_next_u8(r6.self, b)
        r8 == Mult13P1_next_u8(r7.self, b)
        us == <<r1.out, r2.out, r3.out, r4.out, r5.out, r6.out, r7.out, r8.out>>
    IN  RandRet(r8.self, from_le_bytes(us), us, <<>>, <<>>)

Mult13P1_fill_bytes(self, dest, b) == ForEachByte(self, dest, 0, <<>>, <<>>, b)

Mult13P1_from_seed(seed, b) == Mult13P1_new(seed[1], b)

Xyza8a_RngCore_next_u32(self, b) ==
    LET r1 == Xyza8a_next_u8(self, b)
        r2 == Xyza8a_next_u8(r1.self, b)
        r3 == Xyza8a_next_u8(r2.self, b)
        r4 == Xyza8a_next_u8(r3.self, b)
    IN  RandRet(r4.self, from_le_bytes(<<r1.out, r2.out, r3.out, r4.out>>),
                <<r1.out, r2.out, r3.out, r4.out>>, <<>>, <<>>)

Xyza8a_RngCore_next_u64(self, b) ==
    LET r1 == Xyza8a_next_u8(self, b)
        r2 == Xyza8a_next_u8(r1.self, b)
        r3 == Xyza8a_next_u8(r2.self, b)
        r4 == Xyza8a_next_u8(r3.self, b)
        r5 == Xyza8a_next_u8(r4.self, b)
        r6 == Xyza8a_next_u8(r5.self, b)
        r7 == Xyza8a_next_u8(r6.self, b)
        r8 == Xyza8a_next_u8(r7.self, b)
        us == <<r1.out, r2.out, r3.out, r4.out, r5.out, r6.out, r7.out, r8.out>>
    IN  RandRet(r8.self, from_le_bytes(us), us, <<>>, <<>>)

Xyza8a_fill_bytes(self, dest, b) == ForEachByte(self, dest, 0, <<>>, <<>>, b)

Xyza8a_from_seed(seeds, b) == Xyza8a_new(seeds, b)

Xyza8b_RngCore_next_u32(self, b) ==
    LET r1 == Xyza8b_next_u8(self, b)
        r2 == Xyza8b_next_u8(r1.self, b)
        r3 == Xyza8b_next_u8(r2.self, b)
        r4 == Xyza8b_next_u8(r3.self, b)
    IN  RandRet(r4.self, from_le_bytes(<<r1.out, r2.out, r3.out, r4.out>>),
                <<r1.out, r2.out, r3.out, r4.out>>, <<>>, <<>>)

Xyza8b_RngCore_next_u64(self, b) ==
    LET r1 == Xyza8b_next_u8(self, b)
        r2 == Xyza8b_next_u8(r1.self, b)
        r3 == Xyza8b_next_u8(r2.self, b)
        r4 == Xyza8b_next_u8(r3.self, b)
        r5 == Xyza8b_next_u8(r4.self, b)
        r6 == Xyza8b_next_u8(r5.self, b)
        r7 == Xyza8b_next_u8(r6.self, b)
        r8 == Xyza8b_next_u8(r7.self, b)
        us == <<r1.out, r2.out, r3.out, r4.out, r5.out, r6.out, r7.out, r8.out>>
    IN  RandRet(r8.self, from_le_bytes(us), us, <<>>, <<>>)

Xyza8b_fill_bytes(self, dest, b) == ForEachByte(self, dest, 0, <<>>, <<>>, b)

Xyza8b_from_seed(seeds, b) == Xyza8b_new(seeds, b)

\* type Seed = [u8; N]
SeedLen(kind) ==
    CASE kind = "XorShift16" -> 2
      [] kind = "Mult13P1" -> 1
      [] kind \in {"Xyza8a", "Xyza8b"} -> 4

FromSeedOf(kind, seed, b) ==
    CASE kind = "XorShift16" -> XorShift16_from_seed(seed, b)
      [] kind = "Mult13P1" -> Mult13P1_from_seed(seed, b)
      [] kind = "Xyza8a" -> Xyza8a_from_seed(seed, b)
      [] kind = "Xyza8b" -> Xyza8b_from_seed(seed, b)

RngNextU32Of(self, b) ==
    CASE self.kind = "XorShift16" -> XorShift16_RngCore_next_u32(self, b)
      [] self.kind = "Mult13P1" -> Mult13P1_RngCore_next_u32(self, b)
      [] self.kind = "Xyza8a" -> Xyza8a_RngCore_next_u32(self, b)
      [] self.kind = "Xyza8b" -> Xyza8b_RngCore_next_u32(self, b)

RngNextU64Of(self, b) ==
    CASE self.kind = "XorShift16" -> XorShift16_RngCore_next_u64(self, b)
      [] self.kind = "Mult13P1" -> Mult13P1_RngCore_next_u64(self, b)
      [] self.kind = "Xyza8a" -> Xyza8a_RngCore_next_u64(self, b)
      [] self.kind = "Xyza8b" -> Xyza8b_RngCore_next_u64(self, b)

FillBytesOf(self, dest, b) ==
    CASE self.kind = "XorShift16" -> XorShift16_fill_bytes(self, dest, b)
      [] self.kind = "Mult13P1" -> Mult13P1_fill_bytes(self, dest, b)
      [] self.kind = "Xyza8a" -> Xyza8a_fill_bytes(self, dest, b)
      [] self.kind = "Xyza8b" -> Xyza8b_fill_bytes(self, dest, b)

\* the longest buffer fill_bytes is called with
MaxFill == 5

\* the seed arrays from_seed is called with
SeedBytes(kind) == {PartsOf(v, 8) : v \in Seeds(8 * SeedLen(kind))}

\* the buffer the caller hands to fill_bytes, n bytes of 0xFF
Buffer(n) == [k \in 1..n |-> Ones(8)]

RandCallRec(op, args, pre, r) ==
    [op |-> op, kind |-> pre.kind, who |-> 1, sh |-> <<>>, args |-> args,
     pre |-> pre, panic |-> r.panic, gen |-> NoGen, out |-> r.out,
     used |-> r.used, dest |-> r.dest, writes |-> r.writes]

\* T::from_seed(seed)
CallFromSeed ==
    /\ call.op = "start"
    /\ \E kind \in RandKinds : \E seed \in SeedBytes(kind) :
         LET r == FromSeedOf(kind, seed, build)
         IN  /\ g' = [g EXCEPT ![1] = r.gen]
             /\ call' = CallRec("from_seed", kind, 1, <<>>, seed, NoGen, r)
    /\ origin' = "from_seed"
    /\ UNCHANGED <<build, outs, base>>

RandReady ==
    /\ ~call.panic
    /\ g[1] # NoGen /\ g[1].kind \in RandKinds /\ Len(outs[1]) < MaxSteps

\* rng.next_u32()
CallNextU32 ==
    /\ RandReady
    /\ LET r == RngNextU32Of(g[1], build)
       IN  /\ g' = [g EXCEPT ![1] = r.self]
           /\ outs' = [outs EXCEPT ![1] = outs[1] \o r.used]
           /\ call' = RandCallRec("next_u32", <<>>, g[1], r)
    /\ UNCHANGED <<build, base, origin>>

\* rng.next_u64()
CallNextU64 ==
    /\ RandReady
    /\ LET r == RngNextU64Of(g[1], build)
       IN  /\ g' = [g EXCEPT ![1] = r.self]
           /\ outs' = [outs EXCEPT ![1] = outs[1] \o r.used]
           /\ call' = RandCallRec("next_u64", <<>>, g[1], r)
    /\ UNCHANGED <<build, base, origin>>

\* rng.fill_bytes(&mut dest) for a buffer of n bytes
CallFillBytes(n) ==
    /\ RandReady
    /\ LET r == FillBytesOf(g[1], Buffer(n), build)
       IN  /\ g' = [g EXCEPT ![1] = r.self]
           /\ outs' = [outs EXCEPT ![1] = outs[1] \o r.used]
           /\ call' = RandCallRec("fill_bytes", Buffer(n), g[1], r)
    /\ UNCHANGED <<build, base, origin>>

NextRand ==
    \/ CallFromSeed
    \/ CallNext(1)
    \/ CallNextU32
    \/ CallNextU64
    \/ \E n \in 0..MaxFill : CallFillBytes(n)

SpecRand == Init /\ [][NextRand]_vars

----------------------------------------------------------------------------
(* The orbit walk: a caller that builds one generator with the checked     *)
(* constructor, keeps a copy of it, and calls next on the original until   *)
(* it is back in the state of the copy. Here base counts the calls made.   *)

\* the types with a single state word of at most 16 bits
CycleKinds == {"XorShift8", "XorShift8Custom", "XorShift16", "Mult13P1"}

RECURSIVE Pow2(_)
Pow2(n) == IF n = 0 THEN 1 ELSE 2 * Pow2(n - 1)

StateWidth(kind) == IF kind = "XorShift16" THEN 16 ELSE 8

\* the seeds the walk starts from: 1 for the 16-bit type, every byte for
\* Mult13P1
CycleSeeds(kind) ==
    CASE kind = "XorShift16" -> {OneHot(16, 0)}
      [] kind = "Mult13P1" -> {FromNat(n, 8) : n \in 0..255}
      [] OTHER -> Seeds(8)

\* the generator is back in the state it was built in
Returned == base > 0 /\ g[1] = g[2]

\* let mut generator = T::new(seed); let start = generator;
CycleNew ==
    /\ call.op = "start"
    /\ \E kind \in CycleKinds : \E sh \in ShiftsOf(kind) : \E seed \in CycleSeeds(kind) :
         /\ ValidShifts(sh)
         /\ LET r == Construct(<<kind, "new">>, sh, <<seed>>, build)
            IN  /\ g' = <<r.gen, IF r.gen = NoGen THEN NoGen ELSE CloneOf(r.gen)>>
                /\ call' = CallRec("new", kind, 1, sh, <<seed>>, NoGen, r)
    /\ origin' = "checked"
    /\ UNCHANGED <<build, outs, base>>

\* generator.next_*(), as long as the generator is not back at its start; a
\* state word of W bits has 2^W values, so the walk stops after 2^W + 1 calls.
\* The words returned are kept for the byte-wide types.
CycleNext ==
    /\ ~call.panic
    /\ g[1] # NoGen /\ ~Returned
    /\ base <= Pow2(StateWidth(g[1].kind))
    /\ LET r == NextOf(g[1], build)
       IN  /\ g' = [g EXCEPT ![1] = r.self]
           /\ outs' = IF r.panic \/ StateWidth(g[1].kind) > 8 THEN outs
                      ELSE [outs EXCEPT ![1] = Append(outs[1], r.out)]
           /\ call' = CallRec("next", g[1].kind, 1, g[1].sh, <<>>, g[1], r)
    /\ base' = base + 1
    /\ UNCHANGED <<build, origin>>

NextCycle ==
    \/ CycleNew
    \/ CycleNext

SpecCycle == Init /\ [][NextCycle]_vars

----------------------------------------------------------------------------
(* Properties                                                              *)

\* the types whose all-zero state is forbidden
ForbiddenZeroKinds == {"XorShift8", "XorShift8Custom", "XorShift8Gen",
                       "XorShift16", "XorShift32", "XorShift64",
                       "XorShift128", "XorShift128p"}

AllZero(ws) == \A i \in 1..Len(ws) : IsZero(ws[i])

\* C1: for every forbidden-zero type the checked constructor new(seed) returns
\* without aborting when the type's shift parameters (if any) are in range, and
\* whenever it returns, it returns None exactly when every bit of the seed is
\* zero, and otherwise a generator of that type whose state words are the seed
\* words, unmodified.
C1_CheckedNew ==
    (call.op = "new" /\ call.kind \in ForbiddenZeroKinds) =>
        /\ ValidShifts(call.sh) => ~call.panic
        /\ ~call.panic =>
             /\ (call.gen = NoGen) <=> AllZero(call.args)
             /\ call.gen # NoGen =>
                  call.gen = [kind |-> call.kind, sh |-> call.sh, w |-> call.args]

\* new of XorShift128 returned a generator for a seed whose first three words are zero
C1_Witness ==
    /\ call.op = "new" /\ call.kind = "XorShift128" /\ call.gen # NoGen
    /\ IsZero(call.args[1]) /\ IsZero(call.args[2]) /\ IsZero(call.args[3])
    /\ call.gen.w[4] = call.args[4]

\* the forbidden-zero types with one byte of state, and every byte
ByteStateKinds == {"XorShift8", "XorShift8Custom", "XorShift8Gen"}

Bytes == {FromNat(n, 8) : n \in 0..255}

\* C2: fixed-point avoidance.  For every forbidden-zero type (shift parameters
\* in range): an instance that came from a checked constructor or from
\* default() never has the all-zero state, however often it was advanced, nor
\* has the generator next_new returns for it; and one advancement (next or
\* next_new) yields the all-zero state only from the all-zero state, which
\* for the one-byte types is checked from each of the 255 non-zero states.
C2_FixedPointAvoidance ==
    /\ origin \in {"checked", "default"} =>
         \A i \in 1..2 :
            (g[i] # NoGen /\ g[i].kind \in ForbiddenZeroKinds /\ ValidShifts(g[i].sh))
                => ~AllZero(g[i].w)
    /\ (/\ call.op \in {"next", "next_new"} /\ ~call.panic
        /\ call.kind \in ForbiddenZeroKinds /\ ValidShifts(call.sh)) =>
         LET after == IF call.op = "next" THEN g[call.who] ELSE call.gen
         IN  /\ AllZero(after.w) => AllZero(call.pre.w)
             /\ origin \in {"checked", "default"} => ~AllZero(after.w)
    /\ (/\ call.op = "new" /\ call.who = 1 /\ call.kind \in ByteStateKinds
        /\ ValidShifts(call.sh)) =>
         \A x \in Bytes \ {Zero(8)} :
            LET s == Gen(call.kind, call.sh, <<x>>)
                n == NextOf(s, build)
            IN  /\ ~n.panic /\ ~AllZero(n.self.w)
                /\ call.kind \in PeekKinds => ~AllZero(NextNewOf(s, build).gen.w)

\* a XorShift128p generator from a checked constructor, advanced twice
C2_Witness ==
    /\ origin = "checked" /\ call.op = "next" /\ ~call.panic
    /\ call.kind = "XorShift128p" /\ Len(outs[call.who]) >= 2
    /\ ~AllZero(g[call.who].w)

C3Kinds == {"XorShift8", "XorShift8Custom", "XorShift16", "XorShift32",
            "XorShift64", "XorShift128", "XorShift128p", "Xyza8a", "Xyza8b"}

\* C3: peek/advance equivalence of the XOR-based types (shift parameters in
\* range): from every state, the mutating next call and next_new both return,
\* and the state next leaves in the receiver is the state of the generator
\* next_new returns.
C3_PeekEqualsAdvance ==
    /\ (call.op = "next" /\ call.kind \in C3Kinds /\ ValidShifts(call.sh)) =>
         LET p == NextNewOf(call.pre, build)
         IN  ~call.panic /\ ~p.panic /\ p.gen = g[call.who]
    /\ (call.op = "next_new" /\ call.kind \in C3Kinds /\ ValidShifts(call.sh)) =>
         LET n == NextOf(call.pre, build)
         IN  ~call.panic /\ ~n.panic /\ n.self = call.gen

\* C4: Mult13P1::next_new returns for every state, and the generator it returns
\* has the state next_u8 leaves in a copy.
C4_Mult13P1Peek ==
    (call.op = "next_new" /\ call.kind = "Mult13P1") =>
        /\ ~call.panic
        /\ call.gen = NextOf(call.pre, build).self

ReadOnlyOps == {"next_new", "current"}

\* C5: next_new and current_* leave the receiver's state exactly as it was
\* (whether they return or abort), and the next call that follows one of them
\* on the same instance returns what it would have returned without it.
C5_ReadOnlyFrame ==
    /\ [](call.op \in ReadOnlyOps => g[call.who] = call.pre)
    /\ [][(/\ call.op \in ReadOnlyOps /\ call'.op = "next"
           /\ call'.who = call.who) =>
             LET n == NextOf(call.pre, build)
             IN  call'.panic = n.panic /\ call'.out = n.out /\ g'[call.who] = n.self]_vars

\* next_new returned for a Xyza8a generator that had been advanced
C5_Witness ==
    /\ call.op = "next_new" /\ ~call.panic /\ call.kind = "Xyza8a"
    /\ Len(outs[call.who]) >= 1 /\ call.gen # call.pre

NarrowConstructors == {<<"XorShift16", "new2_u8">>, <<"XorShift32", "new2_16">>,
                       <<"XorShift32", "new4_8">>, <<"XorShift64", "new2_u32">>,
                       <<"XorShift64", "new4_u16">>, <<"XorShift64", "new8_u8">>}

\* bit j (from 1) of the sum of parts[i] * 2^(b * (i - 1)), each part of b bits
BitOfSum(parts, b, j) == parts[((j - 1) \div b) + 1][((j - 1) % b) + 1]

\* the sum of parts[i] * 2^(b * (i - 1)) as a number, where it is below 2^30
RECURSIVE SumFrom(_, _, _)
SumFrom(parts, b, i) ==
    IF i > Len(parts) THEN 0
    ELSE (IF IsZero(parts[i]) THEN 0 ELSE ToNat(parts[i]) * Pow2(b * (i - 1)))
             + SumFrom(parts, b, i + 1)

\* C7: a narrow-seed constructor of XorShift16/32/64 returns without aborting,
\* returns None exactly when every sub-word is zero, and otherwise returns a
\* generator whose state is the sum of w_i * 2^(b*i) of its sub-words w_0.. of
\* b bits (the least significant first).
C7_NarrowSeedsLittleEndian ==
    <<call.kind, call.op>> \in NarrowConstructors =>
        /\ ~call.panic
        /\ (call.gen = NoGen) <=> AllZero(call.args)
        /\ call.gen # NoGen =>
             LET st == call.gen.w[1]
                 b  == Len(call.args[1])
             IN  /\ call.gen.kind = call.kind /\ Len(call.gen.w) = 1
                 /\ Len(st) = b * Len(call.args)
                 /\ \A j \in 1..Len(st) : st[j] = BitOfSum(call.args, b, j)
                 /\ (\A j \in 31..Len(st) : st[j] = 0) =>
                      ToNat(st) = SumFrom(call.args, b, 1)

\* XorShift16::new2_u8([0x01, 0x02]) has the state 0x0201 = 1 + 256 * 2
C7_Witness ==
    /\ call.kind = "XorShift16" /\ call.op = "new2_u8" /\ call.gen # NoGen
    /\ ToNat(call.args[1]) = 1 /\ ToNat(call.args[2]) = 2
    /\ ToNat(call.gen.w[1]) = 513

\* the seed shapes of the types with a 128-bit and a 4 x 8-bit state
WideShapes(kind) ==
    IF kind \in {"XorShift128", "XorShift128p"}
    THEN {<<"new1_128", 128>>, <<"new2_64", 64>>, <<"new4_32", 32>>,
          <<"new8_16", 16>>, <<"new16_8", 8>>}
    ELSE IF kind \in {"Xyza8a", "Xyza8b"}
    THEN {<<"new1_u32", 32>>, <<"new2_u16", 16>>, <<"new4_u8", 8>>}
    ELSE {}

\* the words of a seed array laid end to end, the first the least significant
RECURSIVE Flatten(_)
Flatten(parts) == IF parts = <<>> THEN <<>> ELSE Head(parts) \o Flatten(Tail(parts))

\* C8: for XorShift128, XorShift128p, Xyza8a and Xyza8b, every seed shape
\* given the little-endian split of the same value v returns the same result:
\* the call made returns what each of the other shapes returns for v, None
\* (only the 128-bit types) exactly when v = 0.
C8_SeedShapesAgree ==
    (\E s \in WideShapes(call.kind) : s[1] = call.op) =>
        LET v == Flatten(call.args)
        IN  /\ ~call.panic
            /\ \A s \in WideShapes(call.kind) :
                 LET r == Construct(<<call.kind, s[1]>>, call.sh, PartsOf(v, s[2]), build)
                 IN  ~r.panic /\ r.gen = call.gen
            /\ (call.gen = NoGen) <=>
                 (call.kind \in {"XorShift128", "XorShift128p"} /\ IsZero(v))
            /\ call.gen # NoGen => Flatten(call.gen.w) = v

\* XorShift128p::new8_16 called with the split of 0x100F0E0D...04030201
C8_Witness ==
    /\ call.kind = "XorShift128p" /\ call.op = "new8_16" /\ call.gen # NoGen
    /\ ToNat(call.args[1]) = 513 /\ ToNat(call.args[8]) = 4111
    /\ call.gen = XorShift128p_new1_128(Ramp(128), build).gen

\* the documented default state of each type that implements Default
DocumentedDefault(kind) ==
    CASE kind \in {"XorShift8", "XorShift8Custom", "Mult13P1"} -> <<Hex(<<13, 14>>)>>
      [] kind = "XorShift16" -> <<Hex(<<13, 14, 15, 10>>)>>
      [] kind = "XorShift32" -> <<Hex(<<13, 14, 15, 10, 0, 0, 1, 7>>)>>
      [] kind = "XorShift64" ->
           <<Hex(<<13, 14, 15, 10, 0, 0, 1, 7, 13, 14, 15, 10, 0, 0, 1, 7>>)>>
      [] kind \in {"Xyza8a", "Xyza8b"} ->
           <<Hex(<<13, 14>>), Hex(<<15, 10>>), Hex(<<0, 0>>), Hex(<<1, 7>>)>>

\* C9: default() never aborts, in either build profile, and returns a
\* generator whose state is the type's documented non-zero constant (shift
\* parameters in range).
C9_DefaultNeverFails ==
    (call.op = "default" /\ ValidShifts(call.sh)) =>
        /\ ~call.panic
        /\ call.gen = [kind |-> call.kind, sh |-> call.sh,
                       w |-> DocumentedDefault(call.kind)]

UncheckedKinds == {"XorShift8", "XorShift8Custom", "XorShift16", "XorShift32",
                   "XorShift64"}

\* C10: new_unchecked(seed) of XorShift8, XorShift8Custom, XorShift16,
\* XorShift32 and XorShift64 (shift parameters in range) aborts exactly when
\* the build has debug assertions and the seed is zero; whenever it returns,
\* the generator's state is the seed.
C10_UncheckedAssertsNonZero ==
    (call.op = "new_unchecked" /\ call.kind \in UncheckedKinds
        /\ ValidShifts(call.sh)) =>
        /\ call.panic <=> (Checks(build) /\ AllZero(call.args))
        /\ ~call.panic =>
             call.gen = [kind |-> call.kind, sh |-> call.sh, w |-> call.args]

\* C11: the shift-configurable one-byte types enforce 1 <= Si <= 7: in a build
\* with debug assertions new and new_unchecked abort whenever one of the three
\* shift parameters is 0 or greater than 7, so that no generator with a shift
\* out of range exists in such a build.
C11_ShiftRangeEnforced ==
    /\ (/\ call.op \in {"new", "new_unchecked"} /\ call.kind \in ShiftKinds
        /\ Checks(build) /\ ~ValidShifts(call.sh)) => call.panic
    /\ Checks(build) =>
         \A i \in 1..2 :
            (g[i] # NoGen /\ g[i].kind \in ShiftKinds) => ValidShifts(g[i].sh)

\* the documented shift triple of each classic type
ClassicTriple(kind) ==
    CASE kind = "XorShift8" -> <<3, 4, 2>>
      [] kind = "XorShift16" -> <<7, 9, 8>>
      [] kind = "XorShift32" -> <<13, 17, 5>>
      [] kind = "XorShift64" -> <<13, 7, 17>>

ClassicKinds == {"XorShift8", "XorShift16", "XorShift32", "XorShift64"}

\* a XOR b of two natural numbers
RECURSIVE NumXor(_, _)
NumXor(a, b) ==
    IF a = 0 /\ b = 0 THEN 0
    ELSE ((a + b) % 2) + 2 * NumXor(a \div 2, b \div 2)

\* the classic step on the number x of W <= 16 bits, in integer arithmetic
NumStep(x, W, t) ==
    LET x1 == NumXor(x, (x * Pow2(t[1])) % Pow2(W))
        x2 == NumXor(x1, x1 \div Pow2(t[2]))
    IN  NumXor(x2, (x2 * Pow2(t[3])) % Pow2(W))

\* the classic step on a word of any width
WordStep(x, t) ==
    LET x1 == Xor(x, Shl(x, t[1]))
        x2 == Xor(x1, Shr(x1, t[2]))
    IN  Xor(x2, Shl(x2, t[3]))

C13_WrappingSum ==
    /\ (call.op = "next" /\ call.kind = "XorShift128p") =>
         LET w0 == call.pre.w[1]
             w1 == call.pre.w[2]
             u  == Xor(w0, w1)
         IN  /\ ~call.panic
             /\ call.out = WrappingAdd(w0, w1)
             /\ g[call.who].w = <<Xor(Xor(RotL(w1, 24), u), Shl(u, 16)), RotL(u, 37)>>
    /\ (call.op = "current" /\ call.kind = "XorShift128p") =>
         /\ ~call.panic
         /\ call.out = WrappingAdd(call.pre.w[1], call.pre.w[2])

\* C14: XorShift128::next_u64 on the state [s0, s1, s2, s3] returns without
\* aborting, leaves the state [s', s0, s1, s2] where, with s = s0,
\* s ^= (s << 11) mod 2^32, s ^= s >> 8, t = s3, s' = s XOR t XOR (t >> 19),
\* and returns s' * 2^32 + s0: s0 in the low half, s' in the high half.
C14_XorShift128Step ==
    (call.op = "next" /\ call.kind = "XorShift128") =>
        LET s0 == call.pre.w[1]
            sa == Xor(s0, Shl(s0, 11))
            sb == Xor(sa, Shr(sa, 8))
            t  == call.pre.w[4]
            n  == Xor(Xor(sb, t), Shr(t, 19))
        IN  /\ ~call.panic
            /\ g[call.who].w = <<n, s0, call.pre.w[2], call.pre.w[3]>>
            /\ call.out = s0 \o n

\* XorShift128 advanced from a state whose words 0 and 3 are not zero, to a
\* state whose first two words differ
C14_Witness ==
    /\ call.op = "next" /\ call.kind = "XorShift128" /\ ~call.panic
    /\ ~IsZero(call.pre.w[1]) /\ ~IsZero(call.pre.w[4])
    /\ g[call.who].w[1] # g[call.who].w[2]
    /\ SubSeq(call.out, 1, 32) = call.pre.w[1]

XyzaKinds == {"Xyza8a", "Xyza8b"}

\* the new a of the Xyza8 step, in integer arithmetic, from the old x and a
XyzaNewA(kind, x, a) ==
    LET t == IF kind = "Xyza8a" THEN NumXor(x, (x * 16) % 256)
             ELSE NumXor(x, x \div 2)
        k == IF kind = "Xyza8a" THEN 2 ELSE 8
    IN  NumXor(NumXor(NumXor(a, t), a \div k), (t * 2) % 256)

\* C15: from the state (x, y, z, a), next_u8 of Xyza8a and Xyza8b returns
\* without aborting, leaves x' = y, y' = z, z' = a and
\* a' = z' XOR t XOR (z' >> k) XOR ((t << 1) mod 256), where t = x XOR
\* ((x << 4) mod 256) and k = 1 for Xyza8a, t = x XOR (x >> 1) and k = 3 for
\* Xyza8b, and returns a'.
C15_XyzaStep ==
    (call.op = "next" /\ call.kind \in XyzaKinds) =>
        LET w  == call.pre.w
            a1 == XyzaNewA(call.kind, ToNat(w[1]), ToNat(w[4]))
        IN  /\ ~call.panic
            /\ g[call.who].w = <<w[2], w[3], w[4], FromNat(a1, 8)>>
            /\ call.out = FromNat(a1, 8)

\* Xyza8a with the state (0xDE, 0xFA, 0x00, 0x17) was advanced and returned 94
C15_Witness ==
    /\ call.op = "next" /\ call.kind = "Xyza8a" /\ ~call.panic
    /\ call.pre.w = Xyza8a_DEFAULT_SEED /\ ToNat(call.out) = 94
    /\ ToNat(g[call.who].w[3]) = 23

\* C16: Mult13P1::next_u8 returns without aborting from every state n, sets
\* the state to (13 * n + 1) mod 256 and returns the new state; checked at each
\* call made and, once a generator is built, from each of the 256 states.
C16_Mult13P1Step ==
    /\ (call.op = "next" /\ call.kind = "Mult13P1") =>
         /\ ~call.panic
         /\ ToNat(call.out) = (13 * ToNat(call.pre.w[1]) + 1) % 256
         /\ g[call.who].w = <<call.out>>
    /\ (call.op = "new" /\ call.kind = "Mult13P1" /\ call.who = 1) =>
         \A n \in Bytes :
            LET r == NextOf(Gen("Mult13P1", <<>>, <<n>>), build)
            IN  /\ ~r.panic
                /\ ToNat(r.out) = (13 * ToNat(n) + 1) % 256
                /\ r.self.w = <<r.out>>

\* Mult13P1 in state 1 was advanced and returned 14
C16_Witness ==
    /\ call.op = "next" /\ call.kind = "Mult13P1" /\ ~call.panic
    /\ ToNat(call.pre.w[1]) = 1 /\ ToNat(call.out) = 14
    /\ ToNat(g[call.who].w[1]) = 14

\* C17 as stated: the recurrence of Xyza8a and Xyza8b moves the state off
\* (0, 0, 0, 0), so an advancement from the all-zero state does not leave the
\* all-zero state.  (The step is a function of the state alone: if one step
\* leaves the all-zero state in place, every later step does.)
C17_ZeroSeedEscapes ==
    (/\ call.op = "next" /\ call.kind \in XyzaKinds /\ ~call.panic
     /\ AllZero(call.pre.w)) => ~AllZero(g[call.who].w)

\* C17 amended: new of Xyza8a and Xyza8b returns a generator for every seed,
\* the all-zero one included, with the seed as its state; the all-zero state
\* is a fixed point of the step, which returns 0 from it; and a step yields the
\* all-zero state from no other state.
C17_ZeroStateIsFixedPoint ==
    /\ (call.op = "new" /\ call.kind \in XyzaKinds) =>
         /\ ~call.panic
         /\ call.gen = [kind |-> call.kind, sh |-> <<>>, w |-> call.args]
    /\ (call.op = "next" /\ call.kind \in XyzaKinds) =>
         /\ ~call.panic
         /\ AllZero(call.pre.w) => (AllZero(g[call.who].w) /\ IsZero(call.out))
         /\ AllZero(g[call.who].w) => AllZero(call.pre.w)
    /\ (call.op = "next_new" /\ call.kind \in XyzaKinds) =>
         /\ ~call.panic
         /\ AllZero(call.gen.w) <=> AllZero(call.pre.w)

\* Xyza8b built by new([0, 0, 0, 0]) was advanced twice, returned 0 twice and
\* is still in the all-zero state
C17_Witness ==
    /\ origin = "checked" /\ g[1] # NoGen /\ g[1].kind = "Xyza8b"
    /\ call.op = "next" /\ call.who = 1 /\ AllZero(call.pre.w)
    /\ Len(outs[1]) = 2 /\ IsZero(outs[1][1]) /\ IsZero(outs[1][2])
    /\ AllZero(g[1].w)

\* the receiver after k native next calls, and the k words they return
RECURSIVE NextTimes(_, _, _)
NextTimes(self, k, b) ==
    IF k = 0 THEN [self |-> self, outs |-> <<>>]
    ELSE LET r    == NextOf(self, b)
             rest == NextTimes(r.self, k - 1, b)
         IN  [self |-> rest.self, outs |-> <<r.out>> \o rest.outs]

\* the width of the native output of an adapted type
NativeWidth(kind) == IF kind = "XorShift16" THEN 16 ELSE 8

\* byte j (0 the low one) of a word
ByteOf(x, j) == SubSeq(x, 8 * j + 1, 8 * j + 8)

\* C18: fill_bytes on a buffer of n bytes returns, having written each index
\* 0 .. n-1 exactly once (in ascending order) and none outside the buffer,
\* which keeps its length.  It draws ceil(n/2) native outputs for XorShift16,
\* output k going with its low byte to dest[2k] and its high byte to
\* dest[2k+1] (the high byte of the last one is dropped when n is odd), and n
\* outputs, one per byte, for Mult13P1, Xyza8a and Xyza8b; the outputs drawn
\* are those of as many successive native next calls, which leave the
\* receiver in the state fill_bytes leaves it in.
C18_FillBytes ==
    call.op = "fill_bytes" =>
        LET n == Len(call.args)
            W == NativeWidth(call.kind)
            m == IF W = 16 THEN (n + 1) \div 2 ELSE n
            t == NextTimes(call.pre, m, build)
        IN  /\ ~call.panic
            /\ Len(call.dest) = n
            /\ call.writes = [k \in 1..n |-> k - 1]
            /\ Len(call.used) = m
            /\ call.used = t.outs /\ g[1] = t.self
            /\ \A k \in 0..(n - 1) :
                 IF W = 16
                 THEN call.dest[k + 1] = ByteOf(call.used[(k \div 2) + 1], k % 2)
                 ELSE call.dest[k + 1] = call.used[k + 1]

\* XorShift16 filled a buffer of 3 bytes from 2 outputs, dropping the high
\* byte of the second
C18_Witness ==
    /\ call.op = "fill_bytes" /\ call.kind = "XorShift16" /\ ~call.panic
    /\ Len(call.dest) = 3 /\ Len(call.used) = 2
    /\ call.dest[3] = ByteOf(call.used[2], 0)
    /\ ~IsZero(ByteOf(call.used[2], 1))

\* C19: XorShift16::from_seed returns without aborting in either build
\* profile and never returns the zero state: for the seed [0, 0] it returns the
\* generator default() returns, whose state is 0xDEFA, and for every other
\* seed [b0, b1] a generator whose state is b0 + 256 * b1.
C19_FromSeed ==
    (call.op = "from_seed" /\ call.kind = "XorShift16") =>
        /\ ~call.panic
        /\ call.gen # NoGen /\ call.gen.kind = "XorShift16"
        /\ Len(call.gen.w) = 1 /\ ~IsZero(call.gen.w[1])
        /\ AllZero(call.args) =>
             /\ call.gen = DefaultOf("XorShift16", <<>>, build).gen
             /\ call.gen.w[1] = Hex(<<13, 14, 15, 10>>)
        /\ ~AllZero(call.args) =>
             ToNat(call.gen.w[1]) = ToNat(call.args[1]) + 256 * ToNat(call.args[2])

\* XorShift16::from_seed([0, 0]) returned the generator with the state 0xDEFA
C19_Witness ==
    /\ call.op = "from_seed" /\ call.kind = "XorShift16" /\ ~call.panic
    /\ AllZero(call.args) /\ ToNat(call.gen.w[1]) = 57082

\* C20: the adapters' next_u32 and next_u64 return without aborting, advance
\* the generator exactly 32/W and 64/W times (W the width of the native
\* output), and return the outputs of these native calls laid end to end, the
\* first in the least significant W bits and the last in the most significant.
C20_WideOutputs ==
    call.op \in {"next_u32", "next_u64"} =>
        LET bits == IF call.op = "next_u32" THEN 32 ELSE 64
            k    == bits \div NativeWidth(call.kind)
            t    == NextTimes(call.pre, k, build)
        IN  /\ ~call.panic
            /\ Len(call.used) = k
            /\ call.used = t.outs /\ g[1] = t.self
            /\ Len(call.out) = bits
            /\ call.out = Flatten(t.outs)

\* Mult13P1 in state 1 returned 0xDD4CB70E from next_u32: the outputs 14, 183,
\* 76, 221 with the first in the low byte
C20_Witness ==
    /\ call.op = "next_u32" /\ call.kind = "Mult13P1" /\ ~call.panic
    /\ ToNat(call.pre.w[1]) = 1
    /\ ToNat(ByteOf(call.out, 0)) = 14 /\ ToNat(ByteOf(call.out, 1)) = 183
    /\ ToNat(ByteOf(call.out, 2)) = 76 /\ ToNat(ByteOf(call.out, 3)) = 221

\* the shift parameters in the documented range
AllShifts == {<<a, b, c>> : a \in 1..7, b \in 1..7, c \in 1..7}

XorCycleKinds == {"XorShift8", "XorShift8Custom", "XorShift16"}

\* the states of the byte-wide type kind with parameters sh have pairwise
\* different successors
StepInjective(kind, sh, b) ==
    Cardinality({NextOf(Gen(kind, sh, <<x>>), b).self.w[1] : x \in Bytes}) = 256

\* C21: the one-step transition of XorShift8, XorShift16 and XorShift8Custom
\* with shifts in [1,7] is injective on the state space, and repeated next
\* calls bring a generator built from a non-zero seed back to exactly its seed
\* state: it never aborts and never reaches zero on the way, and is back
\* after at most 2^W - 1 calls (W the state width). For the byte-wide types
\* injectivity is compared state by state, for every shift triple in [1,7];
\* the 16-bit walk from 1 returns after exactly 65535 calls, so it passes
\* through every non-zero state, each with its own successor.
C21_CycleThroughSeed ==
    (g[1] # NoGen /\ g[1].kind \in XorCycleKinds) =>
        /\ ~call.panic
        /\ ~IsZero(g[1].w[1])
        /\ base <= Pow2(StateWidth(g[1].kind)) - 1
        /\ (g[1].kind = "XorShift16" /\ Returned) => base = Pow2(16) - 1
        /\ (call.op = "new" /\ g[1].kind = "XorShift8" /\ g[1].w[1] = Ones(8)) =>
               StepInjective("XorShift8", <<>>, build)
        /\ (call.op = "new" /\ g[1].kind = "XorShift8Custom"
               /\ g[1].w[1] = Ones(8) /\ g[1].sh = <<3, 4, 2>>) =>
               \A sh \in AllShifts : StepInjective("XorShift8Custom", sh, build)

\* XorShift8Custom<5, 3, 1> built from 0x30 is back in state 0x30 after 85
\* calls
C21_Witness ==
    /\ g[1] # NoGen /\ g[1].kind = "XorShift8Custom" /\ g[1].sh = <<5, 3, 1>>
    /\ call.op = "next" /\ ~call.panic
    /\ Returned /\ base = 85 /\ g[1].w[1] = Hex(<<3, 0>>)

\* the word the last next call on instance i returned
LastOut(i) == outs[i][Len(outs[i])]

\* C22 as stated: for every type with a current accessor, a current_*() call
\* on a generator that has been advanced returns, and its value is the value
\* the latest next call on that generator returned.
C22_CurrentIsLastOutput ==
    (call.op = "current" /\ Len(outs[call.who]) >= 1) =>
        /\ ~call.panic
        /\ call.out = LastOut(call.who)

\* C22, amended: for every type with a current accessor other than
\* XorShift128p, a current_*() call on a generator that has been advanced
\* returns the value the latest next call on that generator returned. For
\* XorShift128p a current_u64() that returns gives the sum (mod 2^64) of the
\* two words next_64 left in the state, which is the value the following
\* next_64 returns.
C22_CurrentAfterNext ==
    (call.op = "current" /\ Len(outs[call.who]) >= 1) =>
        IF call.kind # "XorShift128p"
        THEN /\ ~call.panic
             /\ call.out = LastOut(call.who)
        ELSE ~call.panic =>
                 /\ call.out = WrappingAdd(call.pre.w[1], call.pre.w[2])
                 /\ call.out = NextOf(call.pre, build).out

\* XorShift128p, advanced at least once, returned from current_u64 a value
\* other than the one its latest next_64 returned
C22_Witness ==
    /\ call.op = "current" /\ call.kind = "XorShift128p" /\ ~call.panic
    /\ Len(outs[call.who]) >= 1
    /\ call.out # LastOut(call.who)
    /\ call.out = NextOf(g[call.who], build).out

\* C23: Mult13P1 has full period 256 and no absorbing state. No state is
\* mapped to itself by next_u8, and 0 is mapped to 1; from every seed, 256
\* consecutive next_u8 calls return each of the 256 byte values exactly once
\* and bring the generator back to its seed state, and no fewer calls do.
C23_FullPeriod ==
    (g[1] # NoGen /\ g[1].kind = "Mult13P1") =>
        /\ ~call.panic
        /\ Len(outs[1]) = base /\ base <= 256
        /\ call.op = "next" =>
               /\ g[1] # call.pre
               /\ IsZero(call.pre.w[1]) => call.out = FromNat(1, 8)
        /\ Returned =>
               /\ base = 256
               /\ {outs[1][i] : i \in 1..256} = Bytes
        /\ (call.op = "new" /\ IsZero(g[1].w[1])) =>
               \A n \in Bytes :
                   NextOf(Gen("Mult13P1", <<>>, <<n>>), build).self.w[1] # n

\* Mult13P1 built from 0 returned 0 from its 256th next_u8 call and is back in
\* state 0
C23_Witness ==
    /\ g[1] # NoGen /\ g[1].kind = "Mult13P1" /\ call.op = "next" /\ ~call.panic
    /\ base = 256 /\ Returned
    /\ IsZero(g[1].w[1]) /\ IsZero(call.out)

====
